---- MODULE Spec2Model ----
(***************************************************************************)
(* Certificate cache of one PKCS#11 token (libp11, src/p11_cert.c).        *)
(*                                                                         *)
(* The state is the token's object list as the PKCS#11 module sees it, the *)
(* in-memory certificate array token->certs, the number of sessions        *)
(* borrowed from the slot, and the caller's position: last is the call     *)
(* that has just returned (its arguments, the injected module failure, the *)
(* calls it made, its result, the record count it started from) until the  *)
(* caller has taken the result, and prev tells what the step before was;   *)
(* stored is what the caller keeps of a store that followed an enumerate.  *)
(* Every API function is one action: the library is single-threaded per    *)
(* token and every module call is synchronous.                             *)
(***************************************************************************)
EXTENDS Integers, Sequences, FiniteSets, TLC

VARIABLES token, certs, sessions, last, prev, stored

vars == <<token, certs, sessions, last, prev, stored>>

(***************************************************************************)
(* Bounds                                                                  *)
(***************************************************************************)
\* number of objects the token can hold; object handles are 1..MaxObjs
MaxObjs == 2
\* number of records the heap can hold: OPENSSL_realloc fails beyond it
MaxCerts == 2

Handles == 1..MaxObjs

(***************************************************************************)
(* PKCS#11 names                                                           *)
(***************************************************************************)
NULL == "NULL"
CKR_OK == "CKR_OK"
CKR_FAILED == "CKR_GENERAL_ERROR"
CKO_CERTIFICATE == "CKO_CERTIFICATE"
CKC_X_509 == "CKC_X_509"
CKC_WTLS == "CKC_WTLS"
CKA_CLASS == "CKA_CLASS"
CKA_ID == "CKA_ID"
CKA_LABEL == "CKA_LABEL"

(***************************************************************************)
(* The token: a sequence of objects in the order the find iterator returns *)
(* them.  An object has a handle and its attributes; label = NULL means    *)
(* the object has no CKA_LABEL, value = NULL that CKA_VALUE does not       *)
(* decode to an X.509 structure.                                           *)
(***************************************************************************)
Attrs(class, type, id, label, value) ==
    [class |-> class, type |-> type, id |-> id, label |-> label, value |-> value]

\* the signature algorithm of a certificate: its name and the digest
\* OBJ_find_sigid_algs resolves it to, NULL when it resolves to none
Sig(name, md) == [name |-> name, md |-> md]

SigAlgs ==
    { Sig("sha1WithRSAEncryption", "NID_sha1"),
      Sig("sha224WithRSAEncryption", "NID_sha224"),
      Sig("sha256WithRSAEncryption", "NID_sha256"),
      Sig("sha384WithRSAEncryption", "NID_sha384"),
      Sig("sha512WithRSAEncryption", "NID_sha512"),
      Sig("RSA-SHA3-224", "NID_sha3_224"),
      Sig("RSA-SHA3-256", "NID_sha3_256"),
      Sig("RSA-SHA3-384", "NID_sha3_384"),
      Sig("RSA-SHA3-512", "NID_sha3_512"),
      Sig("md5WithRSAEncryption", "NID_md5"),
      Sig("ED25519", "NID_undef"),
      Sig("unknown", NULL) }

\* what store() can be asked to create: a certificate (its signature
\* algorithm) with an id and a label
StoreInputs ==
    { [id |-> <<1>>, label |-> "A", sig |-> Sig("sha256WithRSAEncryption", "NID_sha256")],
      [id |-> <<>>, label |-> NULL, sig |-> Sig("unknown", NULL)] }

\* the same, for every signature algorithm
DigestInputs ==
    { [id |-> <<1>>, label |-> "A", sig |-> sg] : sg \in SigAlgs }

\* the attribute sets of the objects a token may hold before the first call
InitKinds ==
    { Attrs(CKO_CERTIFICATE, CKC_X_509, <<1>>, "A", "der"),
      Attrs(CKO_CERTIFICATE, CKC_X_509, <<1, 2>>, NULL, NULL),
      Attrs(CKO_CERTIFICATE, CKC_WTLS, <<2>>, "A", "der") }

\* the ids a key passed to find_certificate may carry
KeyIds == { <<>>, <<1>>, <<1, 2>> }

Object(h, a) ==
    [h |-> h, class |-> a.class, type |-> a.type, id |-> a.id,
     label |-> a.label, value |-> a.value]

TokenHandles(tok) == { tok[i].h : i \in 1..Len(tok) }

ObjectAt(tok, h) == CHOOSE o \in { tok[i] : i \in 1..Len(tok) } : o.h = h

\* tokens that hold n objects with pairwise distinct handles
InitTokens ==
    UNION { { [i \in 1..n |-> Object(i, f[i])] : f \in [1..n -> InitKinds] }
            : n \in 0..MaxObjs }

(***************************************************************************)
(* Module failures injected into one call.  The first fatal failure ends   *)
(* the call, so one failure per call covers every path.                    *)
(***************************************************************************)
Fault(kind, k) == [kind |-> kind, k |-> k]
NoFault == Fault("none", 0)

\* CRYPTOKI_checkerr(f, rv): TRUE when the macro leaves the function with -1
CRYPTOKI_checkerr(rv) == rv # CKR_OK

Rv(failed) == IF failed THEN CKR_FAILED ELSE CKR_OK

(***************************************************************************)
(* Search templates and the module's find iterator                         *)
(***************************************************************************)
ObjAttr(o, a) ==
    CASE a = CKA_CLASS -> o.class
      [] a = CKA_ID    -> o.id
      [] a = CKA_LABEL -> o.label

Matches(o, tmpl) ==
    \A j \in 1..Len(tmpl) : ObjAttr(o, tmpl[j].type) = tmpl[j].val

\* C_FindObjectsInit + C_FindObjects: the handles of the matching objects
FindObjects(tok, tmpl) ==
    LET hit == SelectSeq(tok, LAMBDA o : Matches(o, tmpl))
    IN  [i \in 1..Len(hit) |-> hit[i].h]

(***************************************************************************)
(* pkcs11_destroy_certs: drop the records last to first, free the array    *)
(***************************************************************************)
RECURSIVE pkcs11_destroy_certs(_)
pkcs11_destroy_certs(cs) ==
    IF Len(cs) > 0 THEN pkcs11_destroy_certs(SubSeq(cs, 1, Len(cs) - 1))
    ELSE <<>>

\* one release of a heap block: f names the call, cert the record (its index
\* in the array) the block belongs to, 0 for the array itself
Free(f, i) == [f |-> f, cert |-> i]

\* mutant: the label of a record is not released
FreeCert_leak(cert, i) ==
    (IF cert.x509 # NULL THEN <<Free("X509_free", i)>> ELSE <<>>)
    \o <<Free("OPENSSL_free(cpriv)", i)>>

\* lines 261-269: the blocks one round of the loop releases for record i;
\* a record without decoded certificate or without label owns no such block
FreeCert(cert, i) ==
    (IF cert.x509 # NULL THEN <<Free("X509_free", i)>> ELSE <<>>)
    \o (IF cert.label # NULL THEN <<Free("OPENSSL_free(cpriv->label)", i)>> ELSE <<>>)
    \o <<Free("OPENSSL_free(cpriv)", i)>>

\* while (token->ncerts > 0): the releases of the loop, last record first
RECURSIVE FreeLoop(_)
FreeLoop(cs) ==
    IF Len(cs) > 0
    THEN FreeCert(cs[Len(cs)], Len(cs)) \o FreeLoop(SubSeq(cs, 1, Len(cs) - 1))
    ELSE <<>>

\* every release of one pkcs11_destroy_certs call; token->certs is not NULL
\* exactly when the array holds records
DestroyFrees(cs) ==
    FreeLoop(cs) \o (IF cs # <<>> THEN <<Free("OPENSSL_free(certs)", 0)>> ELSE <<>>)

(***************************************************************************)
(* pkcs11_init_cert                                                        *)
(***************************************************************************)
\* the record filled in lines 189-208 from the object's attributes
NewCert(o) ==
    [object |-> o.h, id |-> o.id, label |-> o.label, x509 |-> o.value]

\* mutant: the scan for an already cached handle finds nothing
HandleCached_never(cs, obj) == FALSE

\* for (i = 0; i < ncerts; ++i) if (certs[i].object == obj) return 0
HandleCached(cs, obj) == \E i \in 1..Len(cs) : cs[i].object = obj

\* mutant: the certificate type is read but not compared with CKC_X_509
InitCert_anytype(cs, o, want, typeFails, allocFails) ==
    IF typeFails THEN [r |-> -1, certs |-> cs, ret |-> 0]
    ELSE IF HandleCached(cs, o.h) THEN [r |-> 0, certs |-> cs, ret |-> 0]
    ELSE IF allocFails \/ Len(cs) >= MaxCerts
         THEN [r |-> -1, certs |-> cs, ret |-> 0]
    ELSE [r |-> 0, certs |-> Append(cs, NewCert(o)),
          ret |-> IF want THEN Len(cs) + 1 ELSE 0]

\* the body of pkcs11_init_cert for the object o that handle obj names;
\* ret = 0: *ret was not written; otherwise the index of the new record
InitCert(cs, o, want, typeFails, allocFails) ==
    IF typeFails THEN [r |-> -1, certs |-> cs, ret |-> 0]
    ELSE IF o.type # CKC_X_509 THEN [r |-> 0, certs |-> cs, ret |-> 0]
    ELSE IF HandleCached(cs, o.h) THEN [r |-> 0, certs |-> cs, ret |-> 0]
    ELSE IF allocFails \/ Len(cs) >= MaxCerts
         THEN [r |-> -1, certs |-> cs, ret |-> 0]
    ELSE [r |-> 0, certs |-> Append(cs, NewCert(o)),
          ret |-> IF want THEN Len(cs) + 1 ELSE 0]

pkcs11_init_cert(cs, tok, obj, want, typeFails, allocFails) ==
    InitCert(cs, ObjectAt(tok, obj), want, typeFails, allocFails)

(***************************************************************************)
(* pkcs11_next_cert, pkcs11_find_certs, pkcs11_enumerate_certs             *)
(***************************************************************************)
\* lines 142-145: the result of pkcs11_next_cert after pkcs11_init_cert
NextCertEnd(ic) ==
    [res |-> IF ic.r # 0 THEN -1 ELSE 0, certs |-> ic.certs,
     calls |-> <<"C_FindObjects">>]

\* the k-th call of pkcs11_next_cert; found = what the iterator returns
pkcs11_next_cert(cs, tok, found, k, flt) ==
    IF CRYPTOKI_checkerr(Rv(flt = Fault("find", k)))
    THEN [res |-> -1, certs |-> cs, calls |-> <<"C_FindObjects!">>]
    ELSE IF k > Len(found)
    THEN [res |-> 1, certs |-> cs, calls |-> <<"C_FindObjects">>]
    ELSE NextCertEnd(pkcs11_init_cert(cs, tok, found[k], FALSE,
                                      flt = Fault("type", k), flt = Fault("alloc", k)))

\* the module calls of one round of the loop, ahead of those of the rest
After(calls, rest) ==
    [res |-> rest.res, certs |-> rest.certs, calls |-> calls \o rest.calls]

\* do { res = pkcs11_next_cert(...); } while (res == 0);
RECURSIVE FindLoop(_, _, _, _, _)
FindLoopStep(nc, tok, found, k, flt) ==
    IF nc.res = 0
    THEN After(nc.calls, FindLoop(nc.certs, tok, found, k + 1, flt))
    ELSE nc

FindLoop(cs, tok, found, k, flt) ==
    FindLoopStep(pkcs11_next_cert(cs, tok, found, k, flt), tok, found, k, flt)

\* mutant: a loop that ended with an error returns without C_FindObjectsFinal
FindCertsEnd_nofinal(lp) ==
    [r |-> IF lp.res < 0 THEN -1 ELSE 0, certs |-> lp.certs,
     calls |-> <<"C_FindObjectsInit">> \o lp.calls
               \o (IF lp.res < 0 THEN <<>> ELSE <<"C_FindObjectsFinal">>)]

\* lines 123-125: C_FindObjectsFinal and the result of pkcs11_find_certs
FindCertsEnd(lp) ==
    [r |-> IF lp.res < 0 THEN -1 ELSE 0, certs |-> lp.certs,
     calls |-> <<"C_FindObjectsInit">> \o lp.calls \o <<"C_FindObjectsFinal">>]

\* mutant: the find loop fills a new array instead of token->certs
pkcs11_find_certs_fresh(cs, tok, flt) ==
    IF CRYPTOKI_checkerr(Rv(flt.kind = "findinit"))
    THEN [r |-> -1, certs |-> cs, calls |-> <<"C_FindObjectsInit!">>]
    ELSE FindCertsEnd(FindLoop(<<>>, tok,
             FindObjects(tok, <<[type |-> CKA_CLASS, val |-> CKO_CERTIFICATE]>>),
             1, flt))

pkcs11_find_certs(cs, tok, flt) ==
    IF CRYPTOKI_checkerr(Rv(flt.kind = "findinit"))
    THEN [r |-> -1, certs |-> cs, calls |-> <<"C_FindObjectsInit!">>]
    ELSE FindCertsEnd(FindLoop(cs, tok,
             FindObjects(tok, <<[type |-> CKA_CLASS, val |-> CKO_CERTIFICATE]>>),
             1, flt))

\* mutant: a failed find leaves the records it had reached in the cache
EnumerateEnd_keep(fc) ==
    [ret |-> fc.r, certs |-> fc.certs,
     calls |-> <<"get_session">> \o fc.calls \o <<"put_session">>,
     count |-> IF fc.r < 0 THEN 0 ELSE Len(fc.certs)]

\* mutant: the failure path returns without pkcs11_put_session
EnumerateEnd_leak(fc) ==
    IF fc.r < 0
    THEN [ret |-> -1, certs |-> pkcs11_destroy_certs(fc.certs),
          calls |-> <<"get_session">> \o fc.calls, count |-> 0]
    ELSE [ret |-> 0, certs |-> fc.certs,
          calls |-> <<"get_session">> \o fc.calls \o <<"put_session">>,
          count |-> Len(fc.certs)]

\* lines 48-58: what pkcs11_enumerate_certs does with the result of
\* pkcs11_find_certs; count = 0 with ret = -1: *countp was not written
EnumerateEnd(fc) ==
    IF fc.r < 0
    THEN [ret |-> -1, certs |-> pkcs11_destroy_certs(fc.certs),
          calls |-> <<"get_session">> \o fc.calls \o <<"put_session">>,
          count |-> 0]
    ELSE [ret |-> 0, certs |-> fc.certs,
          calls |-> <<"get_session">> \o fc.calls \o <<"put_session">>,
          count |-> Len(fc.certs)]

\* mutant: a failed pkcs11_get_session takes the cleanup path as well
pkcs11_enumerate_certs_wipe(cs, tok, flt) ==
    IF flt.kind = "sess"
    THEN [ret |-> -1, certs |-> pkcs11_destroy_certs(cs),
          calls |-> <<"get_session!">>, count |-> 0]
    ELSE EnumerateEnd(pkcs11_find_certs(cs, tok, flt))

pkcs11_enumerate_certs(cs, tok, flt) ==
    IF flt.kind = "sess"
    THEN [ret |-> -1, certs |-> cs, calls |-> <<"get_session!">>, count |-> 0]
    ELSE EnumerateEnd(pkcs11_find_certs(cs, tok, flt))

(***************************************************************************)
(* pkcs11_find_certificate                                                 *)
(***************************************************************************)
\* id buffers are zero-filled arrays; a byte past the id's length reads 0
Byte(buf, i) == IF i <= Len(buf) THEN buf[i] ELSE 0

\* !memcmp(a, b, n)
memcmp_eq(a, b, n) == \A i \in 1..n : Byte(a, i) = Byte(b, i)

\* mutant: the id lengths are not compared
IdMatches_nolen(cert, keyid) == memcmp_eq(cert.id, keyid, Len(keyid))

\* cpriv->id_len == key->id_len && !memcmp(cpriv->id, key->id, key->id_len)
IdMatches(cert, keyid) ==
    Len(cert.id) = Len(keyid) /\ memcmp_eq(cert.id, keyid, Len(keyid))

\* for (n = 0; n < count; n++, cert++): index of the record returned, 0 = NULL
RECURSIVE FindCertLoop(_, _, _, _)
FindCertLoop(cs, count, keyid, n) ==
    IF n > count THEN 0
    ELSE IF IdMatches(cs[n], keyid) THEN n
    ELSE FindCertLoop(cs, count, keyid, n + 1)

\* lines 90-98; ret is the status of the enumerate call, cert the record returned
FindCertificateEnd(en, keyid) ==
    [ret |-> en.ret,
     cert |-> IF en.ret # 0 THEN 0 ELSE FindCertLoop(en.certs, en.count, keyid, 1),
     certs |-> en.certs, calls |-> en.calls]

pkcs11_find_certificate(cs, tok, keyid, flt) ==
    FindCertificateEnd(pkcs11_enumerate_certs(cs, tok, flt), keyid)

(***************************************************************************)
(* pkcs11_remove_certificate                                               *)
(***************************************************************************)
\* C_DestroyObject(session, handle): the token without that object
DestroyObject(tok, h) == SelectSeq(tok, LAMBDA o : o.h # h)

\* lines 74-78, ok: C_DestroyObject returned CKR_OK
RemoveEnd(tok, h, ok) ==
    [ret |-> IF CRYPTOKI_checkerr(Rv(~ok)) THEN -1 ELSE 0,
     token |-> IF ok THEN DestroyObject(tok, h) ELSE tok,
     calls |-> <<"get_session",
                 IF ok THEN "C_DestroyObject" ELSE "C_DestroyObject!",
                 "put_session">>]

pkcs11_remove_certificate(cs, tok, idx, flt) ==
    IF flt.kind = "sess"
    THEN [ret |-> -1, token |-> tok, calls |-> <<"get_session!">>]
    ELSE RemoveEnd(tok, cs[idx].object,
                   flt.kind # "destroy" /\ cs[idx].object \in TokenHandles(tok))

(***************************************************************************)
(* pkcs11_reload_certificate                                               *)
(***************************************************************************)
\* search_parameters[0..n-1]: class, then id and label when the record has them
ReloadTemplate(cert) ==
    <<[type |-> CKA_CLASS, val |-> CKO_CERTIFICATE]>>
    \o (IF Len(cert.id) # 0 THEN <<[type |-> CKA_ID, val |-> cert.id]>> ELSE <<>>)
    \o (IF cert.label # NULL THEN <<[type |-> CKA_LABEL, val |-> cert.label]>> ELSE <<>>)

\* mutant: the handle found is counted but not stored in the record
FindOne_nostore(found, old) ==
    IF Len(found) = 0 THEN [object |-> old, count |-> 0]
    ELSE [object |-> old, count |-> 1]

\* C_FindObjects(session, &cert->object, 1, &count): at most one handle is
\* asked for; with no match the handle is left as it was
FindOne(found, old) ==
    IF Len(found) = 0 THEN [object |-> old, count |-> 0]
    ELSE [object |-> found[1], count |-> 1]

\* mutant: the handle found is written to the first record of the array
ReloadEnd_first(cs, idx, rvInit, rvFind, f) ==
    [ret |-> IF CRYPTOKI_checkerr(IF rvInit = CKR_OK THEN rvFind ELSE rvInit) THEN -1
             ELSE IF f.count # 1 THEN -1 ELSE 0,
     certs |-> [cs EXCEPT ![1].object = f.object],
     calls |-> <<"get_session">>
               \o (IF rvInit # CKR_OK THEN <<"C_FindObjectsInit!">>
                   ELSE <<"C_FindObjectsInit",
                          IF rvFind = CKR_OK THEN "C_FindObjects" ELSE "C_FindObjects!",
                          "C_FindObjectsFinal">>)
               \o <<"put_session">>]

\* lines 239-252: rvInit, rvFind are what C_FindObjectsInit and C_FindObjects
\* return, f is what C_FindObjects wrote when both returned CKR_OK
ReloadEnd(cs, idx, rvInit, rvFind, f) ==
    [ret |-> IF CRYPTOKI_checkerr(IF rvInit = CKR_OK THEN rvFind ELSE rvInit) THEN -1
             ELSE IF f.count # 1 THEN -1 ELSE 0,
     certs |-> [cs EXCEPT ![idx].object = f.object],
     calls |-> <<"get_session">>
               \o (IF rvInit # CKR_OK THEN <<"C_FindObjectsInit!">>
                   ELSE <<"C_FindObjectsInit",
                          IF rvFind = CKR_OK THEN "C_FindObjects" ELSE "C_FindObjects!",
                          "C_FindObjectsFinal">>)
               \o <<"put_session">>]

pkcs11_reload_certificate(cs, tok, idx, flt) ==
    IF flt.kind = "sess"
    THEN [ret |-> -1, certs |-> cs, calls |-> <<"get_session!">>]
    ELSE ReloadEnd(cs, idx, Rv(flt.kind = "findinit"), Rv(flt.kind = "find"),
                   IF flt.kind \in {"findinit", "find"}
                   THEN [object |-> cs[idx].object, count |-> 0]
                   ELSE FindOne(FindObjects(tok, ReloadTemplate(cs[idx])),
                                cs[idx].object))

(***************************************************************************)
(* pkcs11_store_certificate                                                *)
(***************************************************************************)
\* C_CreateObject with the template of lines 301-361: label and id are
\* added only when supplied; the new object goes last in find order
CreateObject(tok, in, newh) ==
    Append(tok, Object(newh, Attrs(CKO_CERTIFICATE, CKC_X_509, in.id, in.label, "der")))

\* OBJ_find_sigid_algs(signature_nid, &evp_md_nid, NULL): evp_md_nid is
\* written only when the signature algorithm is known
OBJ_find_sigid_algs(sig, evp_md_nid) ==
    IF sig.md = NULL THEN evp_md_nid ELSE sig.md

Digest(md, ckm) == [md |-> md, ckm |-> ckm]

NoDigest == Digest(NULL, NULL)

\* mutant: no default label, a digest without case leaves the switch as it came
DigestSwitch_nodefault(evp_md_nid) ==
    CASE evp_md_nid = "NID_sha1"     -> Digest("NID_sha1", "CKM_SHA_1")
      [] evp_md_nid = "NID_sha224"   -> Digest("NID_sha224", "CKM_SHA224")
      [] evp_md_nid = "NID_sha256"   -> Digest("NID_sha256", "CKM_SHA256")
      [] evp_md_nid = "NID_sha512"   -> Digest("NID_sha512", "CKM_SHA512")
      [] evp_md_nid = "NID_sha384"   -> Digest("NID_sha384", "CKM_SHA384")
      [] evp_md_nid = "NID_sha3_224" -> Digest("NID_sha3_224", "CKM_SHA3_224")
      [] evp_md_nid = "NID_sha3_256" -> Digest("NID_sha3_256", "CKM_SHA3_256")
      [] evp_md_nid = "NID_sha3_384" -> Digest("NID_sha3_384", "CKM_SHA3_384")
      [] evp_md_nid = "NID_sha3_512" -> Digest("NID_sha3_512", "CKM_SHA3_512")
      [] OTHER                       -> Digest(evp_md_nid, "CKM_SHA_1")

\* switch (evp_md_nid), lines 317-350: the digest EVP_get_digestbynid is
\* asked for afterwards and the mechanism written as CKA_NAME_HASH_ALGORITHM
DigestSwitch(evp_md_nid) ==
    CASE evp_md_nid = "NID_sha1"     -> Digest("NID_sha1", "CKM_SHA_1")
      [] evp_md_nid = "NID_sha224"   -> Digest("NID_sha224", "CKM_SHA224")
      [] evp_md_nid = "NID_sha256"   -> Digest("NID_sha256", "CKM_SHA256")
      [] evp_md_nid = "NID_sha512"   -> Digest("NID_sha512", "CKM_SHA512")
      [] evp_md_nid = "NID_sha384"   -> Digest("NID_sha384", "CKM_SHA384")
      [] evp_md_nid = "NID_sha3_224" -> Digest("NID_sha3_224", "CKM_SHA3_224")
      [] evp_md_nid = "NID_sha3_256" -> Digest("NID_sha3_256", "CKM_SHA3_256")
      [] evp_md_nid = "NID_sha3_384" -> Digest("NID_sha3_384", "CKM_SHA3_384")
      [] evp_md_nid = "NID_sha3_512" -> Digest("NID_sha3_512", "CKM_SHA3_512")
      [] OTHER                       -> Digest("NID_sha1", "CKM_SHA_1")

\* int evp_md_nid = NID_sha1; ... OBJ_find_sigid_algs(...); switch (evp_md_nid)
DigestOf(sig) == DigestSwitch(OBJ_find_sigid_algs(sig, "NID_sha1"))

\* pkcs11_addattr_obj(attrs + n++, type, enc, obj) for the entry named what:
\* TRUE when the DER encoding was stored in the entry; the caller does not
\* look at the outcome and goes on to the next entry
pkcs11_addattr_obj(flt, what) == flt.kind # what

\* what the token makes of the template: an X.509 certificate object cannot
\* be created without CKA_SUBJECT and CKA_VALUE, CKA_ISSUER may be left out
TemplateAccepted(flt) ==
    /\ pkcs11_addattr_obj(flt, "der_subject")
    /\ pkcs11_addattr_obj(flt, "der_value")

\* mutant: the result of pkcs11_init_cert is dropped
StoreEnd_ok(ic, tok2, newh, dg) ==
    [ret |-> 0, certs |-> ic.certs, token |-> tok2, out |-> ic.ret,
     object |-> newh, digest |-> dg,
     calls |-> <<"get_session", "C_CreateObject", "pkcs11_init_cert", "put_session">>]

\* lines 370-376 after C_CreateObject returned CKR_OK; the call of
\* pkcs11_init_cert is listed with the module calls
StoreEnd(ic, tok2, newh, dg) ==
    [ret |-> ic.r, certs |-> ic.certs, token |-> tok2, out |-> ic.ret,
     object |-> newh, digest |-> dg,
     calls |-> <<"get_session", "C_CreateObject", "pkcs11_init_cert", "put_session">>]

\* the caller passes ret_cert; out = 0: *ret_cert was not written; digest:
\* the digest and the mechanism the template was built with
pkcs11_store_certificate(cs, tok, in, newh, flt) ==
    IF flt.kind = "sess"
    THEN [ret |-> -1, certs |-> cs, token |-> tok, out |-> 0, object |-> 0,
          digest |-> NoDigest, calls |-> <<"get_session!">>]
    ELSE IF CRYPTOKI_checkerr(Rv(\/ flt.kind = "create"
                                 \/ Len(tok) >= MaxObjs
                                 \/ ~TemplateAccepted(flt)))
    THEN [ret |-> -1, certs |-> cs, token |-> tok, out |-> 0, object |-> 0,
          digest |-> DigestOf(in.sig),
          calls |-> <<"get_session", "C_CreateObject!", "put_session">>]
    ELSE StoreEnd(pkcs11_init_cert(cs, CreateObject(tok, in, newh), newh, TRUE,
                                   flt.kind = "type", flt.kind = "alloc"),
                  CreateObject(tok, in, newh), newh, DigestOf(in.sig))

(***************************************************************************)
(* State machine                                                           *)
(***************************************************************************)
RECURSIVE Count(_, _)
Count(calls, name) ==
    IF calls = <<>> THEN 0
    ELSE (IF Head(calls) = name THEN 1 ELSE 0) + Count(Tail(calls), name)

\* sessions borrowed from the slot once a call with these module calls is over
Held(n, calls) == n + Count(calls, "get_session") - Count(calls, "put_session")

\* The call that has just returned.  idx: the record remove/reload was given;
\* id, label: the key's id (find) or store's arguments; out: *countp
\* (enumerate), the record returned (find), *ret_cert (store); object: the
\* handle C_CreateObject returned (store) or the record's handle before the
\* call (reload); n0: ncerts before the call; follows: the step before was an
\* enumerate that returned 0 (enumerate), the token re-issuing handles (reload);
\* moved: the call grew the array and the records it held changed address;
\* frees: the heap blocks destroy released; sig, digest: the signature
\* algorithm of the certificate given to store and what store made of it.
Last(op, ret, flt, calls, idx, in, out, object, follows) ==
    [op |-> op, ret |-> ret, fault |-> flt.kind, calls |-> calls, idx |-> idx,
     id |-> in.id, label |-> in.label, out |-> out, object |-> object,
     n0 |-> Len(certs), follows |-> follows, moved |-> FALSE,
     frees |-> <<>>, sig |-> Sig(NULL, NULL), digest |-> NoDigest]

NoArg == [id |-> <<>>, label |-> NULL]

\* no call has returned whose result the caller has not taken yet
Idle == Last("none", 0, NoFault, <<>>, 0, NoArg, 0, 0, FALSE)

\* what the caller of a successful store that directly followed a successful
\* enumerate remembers until its next call: the handles the cache held
\* before the store and the handle C_CreateObject returned
Stored(handles, object) == [handles |-> handles, object |-> object]

NoStore == Stored(<<>>, 0)

Init ==
    /\ token \in InitTokens
    /\ certs = <<>>
    /\ sessions = 0
    /\ last = Idle
    /\ prev = "none"
    /\ stored = NoStore

\* the failures a find iteration over n objects can meet
FindFaults(n) ==
    { NoFault, Fault("sess", 0), Fault("findinit", 0) }
    \cup { Fault("find", k) : k \in 1..(n + 1) }
    \cup { Fault(kind, k) : kind \in {"type", "alloc"}, k \in 1..n }

\* the state after a call: res carries the call's ret, calls and, when the
\* call writes them, certs and token
Returned(res, lst, pv) ==
    /\ certs' = res.certs
    /\ token' = res.token
    /\ sessions' = Held(sessions, res.calls)
    /\ last' = lst
    /\ prev' = pv
    /\ stored' = IF lst.op = "store" /\ lst.ret = 0 /\ prev = "enumerated"
                 THEN Stored([i \in 1..Len(certs) |-> certs[i].object], lst.object)
                 ELSE NoStore

\* tmp = OPENSSL_realloc(token->certs, ...); token->certs = tmp: growing an
\* array that holds records may hand back another block, and the allocator
\* decides; cs is the array before the call, cs2 the array after it
Realloc(cs, cs2) ==
    IF Len(cs) > 0 /\ Len(cs2) > Len(cs) THEN BOOLEAN ELSE {FALSE}

EnumerateDone(en, flt) ==
    \E moved \in Realloc(certs, en.certs) :
        Returned([certs |-> en.certs, token |-> token, calls |-> en.calls],
                 [Last("enumerate", en.ret, flt, en.calls, 0, NoArg, en.count, 0,
                       prev = "enumerated") EXCEPT !.moved = moved],
                 IF en.ret = 0 THEN "enumerated" ELSE "none")

Enumerate ==
    /\ last = Idle
    /\ \E flt \in FindFaults(Len(token)) :
          EnumerateDone(pkcs11_enumerate_certs(certs, token, flt), flt)

FindByKeyDone(fc, keyid, flt) ==
    \E moved \in Realloc(certs, fc.certs) :
        Returned([certs |-> fc.certs, token |-> token, calls |-> fc.calls],
                 [Last("find", fc.ret, flt, fc.calls, 0, [id |-> keyid, label |-> NULL],
                       fc.cert, 0, FALSE) EXCEPT !.moved = moved],
                 "none")

FindByKey ==
    /\ last = Idle
    /\ \E flt \in FindFaults(Len(token)), keyid \in KeyIds :
          FindByKeyDone(pkcs11_find_certificate(certs, token, keyid, flt), keyid, flt)

\* mutant: a successful remove takes the record out of the cache as well
RemoveDone_drop(rm, idx, flt) ==
    Returned([certs |-> IF rm.ret = 0
                        THEN SubSeq(certs, 1, idx - 1) \o SubSeq(certs, idx + 1, Len(certs))
                        ELSE certs,
              token |-> rm.token, calls |-> rm.calls],
             Last("remove", rm.ret, flt, rm.calls, idx, NoArg, 0, 0, FALSE),
             "none")

RemoveDone(rm, idx, flt) ==
    Returned([certs |-> certs, token |-> rm.token, calls |-> rm.calls],
             Last("remove", rm.ret, flt, rm.calls, idx, NoArg, 0, 0, FALSE),
             "none")

Remove ==
    /\ last = Idle
    /\ \E idx \in 1..Len(certs), kind \in {"none", "sess", "destroy"} :
          RemoveDone(pkcs11_remove_certificate(certs, token, idx, Fault(kind, 0)),
                     idx, Fault(kind, 0))

ReloadDone(rl, idx, flt) ==
    Returned([certs |-> rl.certs, token |-> token, calls |-> rl.calls],
             Last("reload", rl.ret, flt, rl.calls, idx, NoArg, 0, certs[idx].object,
                  prev = "rotated"),
             "none")

Reload ==
    /\ last = Idle
    /\ \E idx \in 1..Len(certs), kind \in {"none", "sess", "findinit", "find"} :
          ReloadDone(pkcs11_reload_certificate(certs, token, idx, Fault(kind, 0)),
                     idx, Fault(kind, 0))

StoreDone(st, in, flt) ==
    \E moved \in Realloc(certs, st.certs) :
        Returned(st,
                 [Last("store", st.ret, flt, st.calls, 0, in, st.out, st.object, FALSE)
                      EXCEPT !.moved = moved, !.sig = in.sig, !.digest = st.digest],
                 "none")

\* store called with the input in; the handle C_CreateObject issues is any
\* handle no object of the token has
StoreCall(in) ==
    \E kind \in {"none", "sess", "der_subject", "der_issuer", "der_value",
                  "create", "type", "alloc"},
       newh \in (IF Handles \subseteq TokenHandles(token) THEN {0}
                 ELSE Handles \ TokenHandles(token)) :
        StoreDone(pkcs11_store_certificate(certs, token, in, newh, Fault(kind, 0)),
                  in, Fault(kind, 0))

Store ==
    /\ last = Idle
    /\ \E in \in StoreInputs : StoreCall(in)

\* store of a certificate signed with any of the signature algorithms
StoreAnySig ==
    /\ last = Idle
    /\ \E in \in DigestInputs : StoreCall(in)

Destroy ==
    /\ last = Idle
    /\ Returned([certs |-> pkcs11_destroy_certs(certs), token |-> token, calls |-> <<>>],
                [Last("destroy", 0, NoFault, <<>>, 0, NoArg, 0, 0, FALSE)
                     EXCEPT !.frees = DestroyFrees(certs)],
                "none")

\* the caller takes the result of the call that returned
Return ==
    /\ last # Idle
    /\ last' = Idle
    /\ UNCHANGED <<token, certs, sessions, prev, stored>>

\* the token re-issues its object handles (session reset, card re-insertion):
\* same objects in the same order, at least one under another handle
TokenRotate ==
    /\ last = Idle
    /\ \E f \in [1..Len(token) -> Handles] :
        /\ \A i, j \in 1..Len(token) : i # j => f[i] # f[j]
        /\ \E i \in 1..Len(token) : f[i] # token[i].h
        /\ token' = [i \in 1..Len(token) |-> [token[i] EXCEPT !.h = f[i]]]
    /\ prev' = "rotated"
    /\ stored' = NoStore
    /\ UNCHANGED <<certs, sessions, last>>

Next ==
    \/ Enumerate
    \/ FindByKey
    \/ Remove
    \/ Reload
    \/ Store
    \/ Destroy
    \/ Return
    \/ TokenRotate

Spec == Init /\ [][Next]_vars

\* the calls that matter for the choice of the digest
NextDigest ==
    \/ StoreAnySig
    \/ Return

SpecDigest == Init /\ [][NextDigest]_vars

TypeOK ==
    /\ Len(token) <= MaxObjs
    /\ Len(certs) <= MaxCerts
    /\ \A i, j \in 1..Len(token) : i # j => token[i].h # token[j].h
    /\ prev \in {"none", "enumerated", "rotated"}

(***************************************************************************)
(* Properties                                                              *)
(***************************************************************************)
CertHandles(cs) == [i \in 1..Len(cs) |-> cs[i].object]

\* the handles of the token's X.509 certificate objects, in find order
X509Handles(tok) ==
    LET hit == SelectSeq(tok, LAMBDA o : o.class = CKO_CERTIFICATE /\ o.type = CKC_X_509)
    IN  [i \in 1..Len(hit) |-> hit[i].h]

\* C1: in every reachable state no two records of the cache carry the same
\* object_handle.
C1_UniqueHandles ==
    \A i, j \in 1..Len(certs) : i # j => certs[i].object # certs[j].object

EnumerateFailedWithSession ==
    /\ last.op = "enumerate"
    /\ last.ret = -1
    /\ Head(last.calls) = "get_session"

\* C2: when enumerate returns an error after its session was acquired, the
\* cache is empty on return, whatever it held before the call.
C2_FailedEnumerateEmptiesCache ==
    EnumerateFailedWithSession => certs = <<>>

\* a failed C_FindObjects in an enumerate that started from a filled cache
C2_Witness ==
    /\ EnumerateFailedWithSession
    /\ last.fault = "find"
    /\ last.n0 = MaxCerts

\* C3: once enumerate, remove, reload or store has returned, no session is
\* held: a session that was acquired was released exactly once, as the last
\* module call of the operation, and a session that was not acquired was not
\* released.
C3_SessionReleasedOnce ==
    /\ sessions = 0
    /\ last.op \in {"enumerate", "remove", "reload", "store"} =>
          /\ Count(last.calls, "get_session") + Count(last.calls, "get_session!") = 1
          /\ Count(last.calls, "put_session") = Count(last.calls, "get_session")
          /\ Head(last.calls) = "get_session" =>
                last.calls[Len(last.calls)] = "put_session"

\* an enumerate whose init-certificate failed on the second object
C3_Witness ==
    /\ last.op = "enumerate"
    /\ last.fault = "alloc"
    /\ last.ret = -1
    /\ Count(last.calls, "C_FindObjects") = 2
    /\ last.calls[Len(last.calls)] = "put_session"

\* C4: a call whose session acquisition fails returns an error, makes no
\* token-module call and leaves the cache and the token as they were.
C4_SessionFailureChangesNothing ==
    [][ last'.fault = "sess" =>
          /\ last'.op \in {"enumerate", "find", "store", "remove", "reload"}
          /\ last'.ret = -1
          /\ last'.out = 0
          /\ last'.calls = <<"get_session!">>
          /\ certs' = certs
          /\ token' = token ]_vars

\* a key lookup that got no session, on a filled cache
C4_Witness ==
    /\ last.op = "find"
    /\ last.fault = "sess"
    /\ Len(certs) = MaxCerts

\* C5: a successful enumerate on an empty cache yields one record per X.509
\* certificate object of the token, in find order; objects of another
\* certificate type are skipped, and a token without certificates yields
\* count = 0.
C5_EnumerateFromEmpty ==
    last.op = "enumerate" /\ last.ret = 0 /\ last.n0 = 0 =>
        /\ CertHandles(certs) = X509Handles(token)
        /\ last.out = Len(X509Handles(token))

\* a WTLS object ahead of an X.509 object: one record, for the second object
C5_Witness ==
    /\ last.op = "enumerate" /\ last.ret = 0 /\ last.n0 = 0
    /\ Len(token) = 2
    /\ token[1].type = CKC_WTLS
    /\ Len(certs) = 1
    /\ certs[1].object = token[2].h

C7_StoreAddsRecord ==
    last.op = "store" /\ last.ret = 0 =>
        \E i \in 1..Len(certs) :
            /\ certs[i].object = last.object
            /\ certs[i].id = last.id
            /\ certs[i].label = last.label
            /\ last.out = i

\* the records whose id is the key's id
KeyHits(cs, keyid) == { i \in 1..Len(cs) : cs[i].id = keyid }

\* C8: find_by_key returns the first record in cache order whose id equals
\* the key's id in length and bytes, and not-found when there is none or when
\* its enumerate failed.
C8_FindByKey ==
    last.op = "find" =>
        IF last.ret # 0 \/ KeyHits(certs, last.id) = {}
        THEN last.out = 0
        ELSE /\ last.out \in KeyHits(certs, last.id)
             /\ \A i \in KeyHits(certs, last.id) : last.out <= i

\* the key's id is a proper prefix of the first record's id and equal to the
\* second record's id: the second record is returned
C8_Witness ==
    /\ last.op = "find" /\ last.ret = 0
    /\ last.id = <<1>>
    /\ Len(certs) = 2
    /\ certs[1].id = <<1, 2>>
    /\ last.out = 2

\* the objects of the token that match the template reload builds for a record
TemplateHits(tok, cert) ==
    { i \in 1..Len(tok) : Matches(tok[i], ReloadTemplate(cert)) }

\* C9: a reload that meets no module failure succeeds if and only if exactly
\* one object of the token matches its search template.
C9_ReloadIffOneMatch ==
    last.op = "reload" /\ last.fault = "none" =>
        (last.ret = 0 <=> Cardinality(TemplateHits(token, certs[last.idx])) = 1)

\* the certificate objects of the token that carry a record's id and label
SameIdLabel(tok, cert) ==
    { i \in 1..Len(tok) : /\ tok[i].class = CKO_CERTIFICATE
                          /\ tok[i].id = cert.id
                          /\ tok[i].label = cert.label }

\* the token re-issued its handles, the record's handle was then not the
\* handle of the object token[i], and the reload that followed met no failure
ReloadedStale(i) ==
    /\ last.op = "reload"
    /\ last.fault = "none"
    /\ last.follows
    /\ last.object # token[i].h

C11_RemoveKeepsCache ==
    [][ last'.op = "remove" =>
          /\ certs' = certs
          /\ token' \in {token, DestroyObject(token, certs[last'.idx].object)} ]_vars

\* a remove that destroyed the object of a record of a full cache
C11_Witness ==
    /\ last.op = "remove" /\ last.ret = 0
    /\ Len(certs) = MaxCerts
    /\ certs[last.idx].object \notin TokenHandles(token)

\* C12, for the calls that return success: a record borrowed from the cache
\* is still the same live record after a successful enumerate, find_by_key,
\* store, remove or reload call: the call neither frees the records that
\* were in the cache nor moves them to another address.
C12_BorrowedStaysValid ==
    last.op \in {"enumerate", "find", "store", "remove", "reload"} /\ last.ret = 0 =>
        /\ ~last.moved
        /\ Len(certs) >= last.n0

\* how often a call released the block f of record i
Releases(frees, f, i) ==
    Cardinality({ k \in 1..Len(frees) : frees[k] = Free(f, i) })

\* C13: destroy leaves the cache with no record and no array; it releases
\* exactly once the x509 and the label of every record that has one, the
\* private state of every record and the array, and nothing else; on an
\* empty cache it releases nothing and changes nothing.
C13_DestroyReleasesOnce ==
    [][ last'.op = "destroy" =>
          /\ certs' = <<>>
          /\ token' = token
          /\ \A i \in 1..Len(certs) :
                /\ Releases(last'.frees, "X509_free", i)
                      = (IF certs[i].x509 # NULL THEN 1 ELSE 0)
                /\ Releases(last'.frees, "OPENSSL_free(cpriv->label)", i)
                      = (IF certs[i].label # NULL THEN 1 ELSE 0)
                /\ Releases(last'.frees, "OPENSSL_free(cpriv)", i) = 1
          /\ Releases(last'.frees, "OPENSSL_free(certs)", 0)
                = (IF certs # <<>> THEN 1 ELSE 0)
          /\ \A k \in 1..Len(last'.frees) : last'.frees[k].cert \in 0..Len(certs)
          /\ certs = <<>> => last'.frees = <<>> ]_vars

\* destroy of a full cache in which one record has a label and a decoded
\* certificate and another has neither
C13_Witness ==
    /\ last.op = "destroy"
    /\ last.n0 = MaxCerts
    /\ certs = <<>>
    /\ \E i, j \in 1..MaxCerts :
          /\ Releases(last.frees, "X509_free", i) = 1
          /\ Releases(last.frees, "OPENSSL_free(cpriv->label)", i) = 1
          /\ Releases(last.frees, "X509_free", j) = 0
          /\ Releases(last.frees, "OPENSSL_free(cpriv->label)", j) = 0
          /\ Releases(last.frees, "OPENSSL_free(cpriv)", j) = 1

\* how often handle h occurs in a sequence of handles
Occurs(handles, h) == Cardinality({ i \in 1..Len(handles) : handles[i] = h })

\* C14: a successful enumerate, then a successful store, then a successful
\* enumerate, with no other call and no change of the token in between: the
\* cache holds every handle as often as before the store, and the handle
\* C_CreateObject returned once more than before.
C14_StoreThenEnumerate ==
    [][ stored # NoStore /\ last'.op = "enumerate" /\ last'.ret = 0 =>
          \A h \in Handles :
              Occurs(CertHandles(certs'), h)
                = Occurs(stored.handles, h) + (IF h = stored.object THEN 1 ELSE 0) ]_vars

\* C15: when the DER encoding of the subject, the issuer or the certificate
\* fails while store builds the template, store returns an error, does not
\* call C_CreateObject and adds no record.
C15_DerFailureAbortsStore ==
    last.op = "store" /\ last.fault \in {"der_subject", "der_issuer", "der_value"} =>
        /\ last.ret = -1
        /\ Count(last.calls, "C_CreateObject") = 0
        /\ Count(last.calls, "C_CreateObject!") = 0
        /\ Len(certs) = last.n0

\* C16: in enumerate (also when run by find_by_key) and in reload, a
\* C_FindObjectsInit that succeeded is followed by exactly one
\* C_FindObjectsFinal, issued after the last C_FindObjects and right before
\* the session is released, whether or not C_FindObjects or init-certificate
\* failed; after a failed C_FindObjectsInit no C_FindObjectsFinal is issued.
C16_FindAlwaysFinalized ==
    last.op \in {"enumerate", "find", "reload"} =>
        /\ Count(last.calls, "C_FindObjectsInit")
              + Count(last.calls, "C_FindObjectsInit!")
              = Count(last.calls, "get_session")
        /\ Count(last.calls, "C_FindObjectsFinal")
              = Count(last.calls, "C_FindObjectsInit")
        /\ Count(last.calls, "C_FindObjectsInit") = 1 =>
              /\ last.calls[2] = "C_FindObjectsInit"
              /\ last.calls[Len(last.calls) - 1] = "C_FindObjectsFinal"
              /\ last.calls[Len(last.calls)] = "put_session"

\* an enumerate whose second C_FindObjects failed
C16_Witness ==
    /\ last.op = "enumerate"
    /\ last.fault = "find"
    /\ Count(last.calls, "C_FindObjects") = 1
    /\ Count(last.calls, "C_FindObjects!") = 1
    /\ Count(last.calls, "C_FindObjectsFinal") = 1

\* the mapping table: digest and the mechanism of the same name
MechanismOf ==
    [md \in {"NID_sha1", "NID_sha224", "NID_sha256", "NID_sha384", "NID_sha512",
             "NID_sha3_224", "NID_sha3_256", "NID_sha3_384", "NID_sha3_512"} |->
        CASE md = "NID_sha1"     -> "CKM_SHA_1"
          [] md = "NID_sha224"   -> "CKM_SHA224"
          [] md = "NID_sha256"   -> "CKM_SHA256"
          [] md = "NID_sha384"   -> "CKM_SHA384"
          [] md = "NID_sha512"   -> "CKM_SHA512"
          [] md = "NID_sha3_224" -> "CKM_SHA3_224"
          [] md = "NID_sha3_256" -> "CKM_SHA3_256"
          [] md = "NID_sha3_384" -> "CKM_SHA3_384"
          [] md = "NID_sha3_512" -> "CKM_SHA3_512"]

\* C17: a store that got its session builds the template with the pair of
\* the mapping table: the digest the signature algorithm resolves to and the
\* mechanism of the same name when that digest is one of the nine of the
\* table, (SHA-1, CKM_SHA_1) for any other digest and for an algorithm that
\* does not resolve; digest and mechanism always name the same hash.
C17_DigestMapping ==
    last.op = "store" /\ last.fault # "sess" =>
        /\ last.digest.md \in DOMAIN MechanismOf
        /\ last.digest.ckm = MechanismOf[last.digest.md]
        /\ last.digest.md = (IF last.sig.md \in DOMAIN MechanismOf
                             THEN last.sig.md ELSE "NID_sha1")

\* a successful store of a certificate signed with MD5: SHA-1 is used
C17_Witness ==
    /\ last.op = "store" /\ last.ret = 0
    /\ last.sig.md = "NID_md5"
    /\ last.digest = Digest("NID_sha1", "CKM_SHA_1")

\* C18: reload leaves the count and the order of the cache, every other
\* record, and the id, label and x509 of its own record as they were,
\* whether it succeeds or fails; a step that is not a reload leaves the
\* object_handle of every record that is in the cache before and after it
\* as it was.
C18_ReloadWritesHandleOnly ==
    [][ /\ last'.op = "reload" =>
              /\ Len(certs') = Len(certs)
              /\ \A i \in 1..Len(certs) :
                    certs'[i] = IF i = last'.idx
                                THEN [certs[i] EXCEPT !.object = certs'[i].object]
                                ELSE certs[i]
        /\ last'.op # "reload" =>
              \A i \in 1..Len(certs) :
                  i <= Len(certs') => certs'[i].object = certs[i].object ]_vars

\* a successful reload of the second of two records that changed its handle
C18_Witness ==
    /\ last.op = "reload" /\ last.ret = 0
    /\ Len(certs) = 2
    /\ last.idx = 2
    /\ certs[2].object # last.object

\* C19: the cache as it was before a successful enumerate is a prefix of the
\* cache after it: no record is removed, moved or rewritten, and a record
\* whose object is no longer on the token stays where it was.
C19_EnumerateKeepsPrefix ==
    [][ last'.op = "enumerate" /\ last'.ret = 0 =>
          /\ Len(certs') >= Len(certs)
          /\ SubSeq(certs', 1, Len(certs)) = certs ]_vars

\* a successful enumerate that found the first record without object on the
\* token and appended a record behind it
C19_Witness ==
    /\ last.op = "enumerate" /\ last.ret = 0
    /\ last.n0 = 1
    /\ Len(certs) = 2
    /\ certs[1].object \notin TokenHandles(token)
    /\ certs[2].object \in TokenHandles(token)

\* C20: store returns 0 only after C_CreateObject and pkcs11_init_cert both
\* succeeded (no attribute read failed, and no allocation failed unless the
\* handle was cached and none was needed); when C_CreateObject fails, store returns -1 without running
\* pkcs11_init_cert and cache and token are unchanged; when C_CreateObject
\* succeeds and pkcs11_init_cert fails, store returns -1 and the cache is
\* unchanged while the token holds the new object.
C20_StoreSuccessConditions ==
    [][ last'.op = "store" =>
          /\ last'.ret \in {0, -1}
          /\ last'.ret = 0 =>
                /\ Count(last'.calls, "C_CreateObject") = 1
                /\ Count(last'.calls, "pkcs11_init_cert") = 1
                /\ last'.fault # "type"
                /\ last'.fault = "alloc" => HandleCached(certs, last'.object)
          /\ Count(last'.calls, "C_CreateObject!") = 1 =>
                /\ last'.ret = -1
                /\ Count(last'.calls, "pkcs11_init_cert") = 0
                /\ certs' = certs
                /\ token' = token
          /\ Count(last'.calls, "C_CreateObject") = 1 =>
                /\ token' = Append(token, ObjectAt(token', last'.object))
                /\ last'.ret = -1 => certs' = certs ]_vars

\* a store whose object was created and whose record could not be allocated
C20_Witness ==
    /\ last.op = "store" /\ last.ret = -1
    /\ last.fault = "alloc"
    /\ last.object \in TokenHandles(token)
    /\ Len(certs) = 1

====
